---- MODULE Spec2Model ----
(***************************************************************************)
(* A model of the Circle API client of src/src/api.rs: construction of the *)
(* client (key discovery), the four client operations, the encryption of   *)
(* the entity secret, the parsing of the wallet-set response and the       *)
(* fan-out of balance lookups done by examples/managed_wallet.rs.          *)
(*                                                                         *)
(* Every operation is an async fn: it runs from its invocation to its      *)
(* send().await in one step (CreateWalletSet, CreateWallet,                *)
(* GetWalletBalance, InitiateTransaction); then the remote service answers *)
(* and the operation resumes with the answer and runs to its end           *)
(* (Respond). Any number of operations may be suspended at once.           *)
(* rand::thread_rng() is taken to be a stream that repeats no output: the  *)
(* seed of an encryption is the count of the seeds read so far.            *)
(***************************************************************************)
EXTENDS Integers, Sequences, FiniteSets, TLC

\* ------------------------------------------------------------------ bounds
\* Number of operation invocations made through the client.
MaxCalls == 2

CallIds == 1..MaxCalls

\* Caller-supplied UUIDs (idempotency keys, wallet identifiers).
Uuids == {"u1", "u2"}

\* HTTP status codes the remote service answers with.
Statuses == {204, 300, 401}

\* Payloads a well-formed response body carries in its "data" field.
Payloads == {"d1", "d2"}

\* Entity secrets handed to CircleClient::new: one byte, two bytes, an odd
\* number of digits, a character that is no hex digit.
Secrets == { <<"7", "4">>, <<"7", "4", "6", "5">>, <<"7", "4", "6">>, <<"7", "g">> }

ApiKeys == {"TEST_API_KEY"}

\* More API keys, for the construction taken alone.
MoreApiKeys == ApiKeys \cup {"OTHER_API_KEY"}

\* ------------------------------------------------------------- result type
NoErr == [type |-> "none", code |-> 0]

NoResult == [kind |-> "none", err |-> NoErr, data |-> ""]

Ok(d) == [kind |-> "Ok", err |-> NoErr, data |-> d]

Err(t, c) == [kind |-> "Err", err |-> [type |-> t, code |-> c], data |-> ""]

\* The error kinds the operations return.
StatusCodeError == "ResponseStatusCodeError"
TransportError == "reqwest::Error(request)"
DecodeError == "reqwest::Error(decode)"
HexError == "hex::FromHexError"
RsaError == "rsa::errors::Error"

\* ------------------------------------------------------- hex::decode (l.170)
\* The hex alphabet, each digit at the position of its value plus one.
LowerHex == <<"0", "1", "2", "3", "4", "5", "6", "7", "8", "9", "a", "b", "c", "d", "e", "f">>
UpperHex == <<"0", "1", "2", "3", "4", "5", "6", "7", "8", "9", "A", "B", "C", "D", "E", "F">>

HexDigits == {LowerHex[i] : i \in 1..16} \cup {UpperHex[i] : i \in 1..16}

HexVal(c) == (CHOOSE i \in 1..16 : LowerHex[i] = c \/ UpperHex[i] = c) - 1

\* hex::decode: an odd number of digits is an error, then each pair of digits
\* is one byte and a character outside the hex alphabet is an error.
HexDecode(s) ==
    IF Len(s) % 2 # 0 THEN [ok |-> FALSE, bytes |-> <<>>]
    ELSE IF \E i \in 1..Len(s) : s[i] \notin HexDigits THEN [ok |-> FALSE, bytes |-> <<>>]
    ELSE [ok |-> TRUE,
          bytes |-> [i \in 1..(Len(s) \div 2) |-> 16 * HexVal(s[2 * i - 1]) + HexVal(s[2 * i])]]

\* ------------------------------------------------- RSA-OAEP (l.171 - l.172)
\* Output size in bytes of Sha256, the digest of Oaep::new::<Sha256>().
Sha256Len == 32

\* PublicKey::encrypt with OAEP padding: a message longer than
\* k - 2 * hLen - 2 bytes (k the modulus size in bytes) is an error, raised
\* before the random source is read; otherwise the ciphertext depends on
\* the key, the message and the seed drawn from the random source.
OaepEncrypt(pk, seed, msg) ==
    IF Len(msg) + 2 * Sha256Len + 2 > pk.n
    THEN [ok |-> FALSE, ct |-> [n |-> 0, seed |-> 0, msg |-> <<>>]]
    ELSE [ok |-> TRUE, ct |-> [n |-> pk.n, seed |-> seed, msg |-> msg]]

\* base64::encode of the ciphertext bytes.
Base64Encode(ct) == [b64 |-> ct]

NoCipher == [b64 |-> [n |-> 0, seed |-> 0, msg |-> <<>>]]

\* A variant of encrypt_entity_secret that encrypts the bytes decoded so far
\* (none) when the secret is malformed (hex::decode(..).unwrap_or_default()).
encrypt_entity_secret_lenient(public_key, entity_secret, seed) ==
    LET dec == HexDecode(entity_secret)
        enc == OaepEncrypt(public_key, seed, dec.bytes)
    IN  IF ~enc.ok
        THEN [ok |-> FALSE, err |-> RsaError, value |-> NoCipher, draws |-> 0,
              steps |-> <<"hex::decode", "Oaep::new", "thread_rng", "encrypt">>]
        ELSE [ok |-> TRUE, err |-> "none", value |-> Base64Encode(enc.ct), draws |-> 1,
              steps |-> <<"hex::decode", "Oaep::new", "thread_rng", "encrypt",
                          "base64::encode">>]

\* encrypt_entity_secret: the steps it runs, in order, and what it returns.
\* seed is the next output of rand::thread_rng(), whose handle is taken as
\* the call's argument and which is read (draws) only by a successful encrypt.
encrypt_entity_secret(public_key, entity_secret, seed) ==
    LET dec == HexDecode(entity_secret)
        enc == OaepEncrypt(public_key, seed, dec.bytes)
    IN  IF ~dec.ok
        THEN [ok |-> FALSE, err |-> HexError, value |-> NoCipher, draws |-> 0,
              steps |-> <<"hex::decode">>]
        ELSE IF ~enc.ok
        THEN [ok |-> FALSE, err |-> RsaError, value |-> NoCipher, draws |-> 0,
              steps |-> <<"hex::decode", "Oaep::new", "thread_rng", "encrypt">>]
        ELSE [ok |-> TRUE, err |-> "none", value |-> Base64Encode(enc.ct), draws |-> 1,
              steps |-> <<"hex::decode", "Oaep::new", "thread_rng", "encrypt",
                          "base64::encode">>]

\* ------------------------------------------------ key discovery (l.31 - l.59)
BaseUrl == "https://api.circle.com/v1/"

PublicKeyUrl(base_url) == <<base_url, "w3s/config/entity/publicKey">>

\* The PEM texts the key-discovery endpoint answers with, as token sequences:
\* the vendor's form (an "RSA " token in both boundary lines), the plain
\* SubjectPublicKeyInfo form, a form whose body is no key, a private key
\* document and an empty text.
\* "SPKI67" is the encoding of a key whose modulus has 67 bytes.
VendorPem == <<"-----BEGIN ", "RSA ", "PUBLIC KEY-----", "SPKI67",
               "-----END ", "RSA ", "PUBLIC KEY-----">>
PlainPem == <<"-----BEGIN ", "PUBLIC KEY-----", "SPKI67", "-----END ", "PUBLIC KEY-----">>
BrokenPem == <<"-----BEGIN ", "RSA ", "PUBLIC KEY-----", "garbage",
               "-----END ", "RSA ", "PUBLIC KEY-----">>
PrivatePem == <<"-----BEGIN ", "RSA ", "PRIVATE KEY-----", "SPKI67",
                "-----END ", "RSA ", "PRIVATE KEY-----">>
KeyStrings == {VendorPem, BrokenPem, <<>>}

\* More key texts, for the construction taken alone: the plain form and a
\* document that is no public key.
MoreKeyStrings == KeyStrings \cup {PlainPem, PrivatePem}

\* A variant of Replace that removes the first occurrence only (replacen(.., 1)).
Replace_first(s, from) ==
    IF \E i \in 1..Len(s) : s[i] = from
    THEN LET i == CHOOSE i \in 1..Len(s) : s[i] = from /\ \A j \in 1..(i - 1) : s[j] # from
         IN  SubSeq(s, 1, i - 1) \o SubSeq(s, i + 1, Len(s))
    ELSE s

\* str::replace(from, ""): every occurrence of the token is removed.
Replace(s, from) == SelectSeq(s, LAMBDA t : t # from)

NoKey == [n |-> 0]

\* The modulus size in bytes of the key a SubjectPublicKeyInfo body encodes
\* (0: the body encodes no key).
SpkiModulusBytes(der) == IF der = "SPKI67" THEN 67 ELSE 0

\* RsaPublicKey::from_public_key_pem: the text must be a "PUBLIC KEY" PEM
\* document whose body decodes to a key.
from_public_key_pem(s) ==
    IF /\ Len(s) = 5
       /\ s[1] = "-----BEGIN " /\ s[2] = "PUBLIC KEY-----"
       /\ s[4] = "-----END " /\ s[5] = "PUBLIC KEY-----"
       /\ SpkiModulusBytes(s[3]) > 0
    THEN [ok |-> TRUE, key |-> [n |-> SpkiModulusBytes(s[3])]]
    ELSE [ok |-> FALSE, key |-> NoKey]

\* A variant of IsSuccess that takes a redirection for a success.
IsSuccess_below400(status) == status >= 200 /\ status < 400

\* StatusCode::is_success: 200 <= code <= 299.
IsSuccess(status) == status >= 200 /\ status <= 299

\* A response: the transport failed (send().await is an error), or a status
\* line and a body; a body is well formed JSON of the expected shape or not.
TransportFailure(T) == [transport |-> FALSE, status |-> 0, wellformed |-> FALSE, data |-> T]

HttpResponse(s, w, d) == [transport |-> TRUE, status |-> s, wellformed |-> w, data |-> d]

NoClient == [base_url |-> "", api_key |-> "", circle_entity_secret |-> <<>>,
             public_key |-> NoKey]

\* CircleClient::new from its send().await on: what the constructor ends in
\* ("Ok" with the client, "Err" with the error, "panic") for a response.
new(api_key, circle_entity_secret, res) ==
    LET public_key_str == Replace(res.data, "RSA ")
        parsed == from_public_key_pem(public_key_str)
    IN  IF ~res.transport
        THEN [end |-> "Err", result |-> Err(TransportError, 0), client |-> NoClient]
        ELSE IF ~IsSuccess(res.status)
        THEN [end |-> "Err", result |-> Err(StatusCodeError, res.status), client |-> NoClient]
        ELSE IF ~res.wellformed
        THEN [end |-> "Err", result |-> Err(DecodeError, 0), client |-> NoClient]
        ELSE IF ~parsed.ok
        THEN [end |-> "panic", result |-> NoResult, client |-> NoClient]
        ELSE [end |-> "Ok", result |-> Ok("CircleClient"),
              client |-> [base_url |-> BaseUrl, api_key |-> api_key,
                          circle_entity_secret |-> circle_entity_secret,
                          public_key |-> parsed.key]]

\* ------------------------------------------------------------ the requests
Get(url, bearer, query) == [method |-> "GET", url |-> url, bearer |-> bearer, body |-> query]

Post(url, bearer, json) == [method |-> "POST", url |-> url, bearer |-> bearer, body |-> json]

\* The request envelopes, with their wire (camelCase) field names.
\* A variant of WalletSetRequest with two of its string fields exchanged.
WalletSetRequest_swapped(idempotency_key, cipher, name) ==
    [idempotencyKey |-> name, entitySecretCipherText |-> cipher, name |-> idempotency_key]

WalletSetRequest(idempotency_key, cipher, name) ==
    [idempotencyKey |-> idempotency_key, entitySecretCipherText |-> cipher, name |-> name]

WalletCreateRequest(idempotency_key, cipher, wallet_set_id, blockchains, count) ==
    [idempotencyKey |-> idempotency_key, entitySecretCipherText |-> cipher,
     walletSetId |-> wallet_set_id, blockchains |-> blockchains, count |-> count]

\* ------------------------------------------------- the operations (l.61 - l.166)
\* An invocation: the operation and its UUID argument, its position (idle,
\* suspended at send().await, done), the steps it has run, the calls of
\* encrypt_entity_secret it has made, the requests it has issued, its result.
IdleCall == [op |-> "none", arg |-> "", pc |-> "idle", steps |-> <<>>, encs |-> <<>>,
             reqs |-> <<>>, result |-> NoResult]

\* create_wallet_set up to its send().await (l.66 - l.81).
create_wallet_set(self, idempotency_key, name, seed) ==
    LET url == <<self.base_url, "w3s/developer/walletSets">>
        enc == encrypt_entity_secret(self.public_key, self.circle_entity_secret, seed)
        request == WalletSetRequest(idempotency_key, enc.value, name)
    IN  IF ~enc.ok
        THEN [op |-> "create_wallet_set", arg |-> idempotency_key, pc |-> "done",
              steps |-> <<"encrypt_entity_secret">>, encs |-> <<enc>>, reqs |-> <<>>,
              result |-> Err(enc.err, 0)]
        ELSE [op |-> "create_wallet_set", arg |-> idempotency_key, pc |-> "send",
              steps |-> <<"encrypt_entity_secret", "send">>, encs |-> <<enc>>,
              reqs |-> <<Post(url, self.api_key, request)>>, result |-> NoResult]

\* A variant of create_wallet that goes on without a ciphertext when the
\* encryption fails (unwrap_or_default() in place of `?`).
create_wallet_unchecked(self, idempotency_key, wallet_set_id, blockchains, count, seed) ==
    LET url == <<self.base_url, "w3s/developer/wallets">>
        enc == encrypt_entity_secret(self.public_key, self.circle_entity_secret, seed)
        request == WalletCreateRequest(idempotency_key, enc.value, wallet_set_id,
                                       blockchains, count)
    IN  [op |-> "create_wallet", arg |-> idempotency_key, pc |-> "send",
         steps |-> <<"encrypt_entity_secret", "send">>, encs |-> <<enc>>,
         reqs |-> <<Post(url, self.api_key, request)>>, result |-> NoResult]

\* create_wallet up to its send().await (l.97 - l.114).
create_wallet(self, idempotency_key, wallet_set_id, blockchains, count, seed) ==
    LET url == <<self.base_url, "w3s/developer/wallets">>
        enc == encrypt_entity_secret(self.public_key, self.circle_entity_secret, seed)
        request == WalletCreateRequest(idempotency_key, enc.value, wallet_set_id,
                                       blockchains, count)
    IN  IF ~enc.ok
        THEN [op |-> "create_wallet", arg |-> idempotency_key, pc |-> "done",
              steps |-> <<"encrypt_entity_secret">>, encs |-> <<enc>>, reqs |-> <<>>,
              result |-> Err(enc.err, 0)]
        ELSE [op |-> "create_wallet", arg |-> idempotency_key, pc |-> "send",
              steps |-> <<"encrypt_entity_secret", "send">>, encs |-> <<enc>>,
              reqs |-> <<Post(url, self.api_key, request)>>, result |-> NoResult]

\* A variant of get_wallet_balance that fetches the public key again before
\* its own request.
get_wallet_balance_refetch(self, wallet_id, query_params) ==
    LET url == <<self.base_url, "w3s/wallets/", wallet_id, "/balances">>
    IN  [op |-> "get_wallet_balance", arg |-> wallet_id, pc |-> "send",
         steps |-> <<"send", "send">>, encs |-> <<>>,
         reqs |-> <<Get(PublicKeyUrl(self.base_url), self.api_key, ""),
                    Get(url, self.api_key, query_params)>>,
         result |-> NoResult]

\* get_wallet_balance up to its send().await (l.129 - l.137).
get_wallet_balance(self, wallet_id, query_params) ==
    LET url == <<self.base_url, "w3s/wallets/", wallet_id, "/balances">>
    IN  [op |-> "get_wallet_balance", arg |-> wallet_id, pc |-> "send",
         steps |-> <<"send">>, encs |-> <<>>,
         reqs |-> <<Get(url, self.api_key, query_params)>>, result |-> NoResult]

\* initiate_transaction up to its send().await (l.151 - l.158): the caller's
\* request is posted as it was passed.
initiate_transaction(self, request) ==
    LET url == <<self.base_url, "w3s/developer/transactions/transfer">>
    IN  [op |-> "initiate_transaction", arg |-> request.idempotencyKey, pc |-> "send",
         steps |-> <<"send">>, encs |-> <<>>,
         reqs |-> <<Post(url, self.api_key, request)>>, result |-> NoResult]

\* A variant of Resume that sends the request once more after a transport
\* error.
Resume_retry(call, res) ==
    IF ~res.transport
    THEN IF Len(call.reqs) = 1
         THEN [call EXCEPT !.steps = @ \o <<"send">>, !.reqs = @ \o <<call.reqs[1]>>]
         ELSE [call EXCEPT !.pc = "done", !.result = Err(TransportError, 0)]
    ELSE IF IsSuccess(res.status)
    THEN [call EXCEPT !.pc = "done", !.steps = @ \o <<"status", "json">>,
                      !.result = IF res.wellformed THEN Ok(res.data)
                                 ELSE Err(DecodeError, 0)]
    ELSE [call EXCEPT !.pc = "done", !.steps = @ \o <<"status">>,
                      !.result = Err(StatusCodeError, res.status)]

\* An operation from its send().await to its end, res the outcome of send():
\* the `?` on a transport error, the status branch, the parse of the body.
Resume(call, res) ==
    IF ~res.transport
    THEN [call EXCEPT !.pc = "done", !.result = Err(TransportError, 0)]
    ELSE IF IsSuccess(res.status)
    THEN [call EXCEPT !.pc = "done", !.steps = @ \o <<"status", "json">>,
                      !.result = IF res.wellformed THEN Ok(res.data)
                                 ELSE Err(DecodeError, 0)]
    ELSE [call EXCEPT !.pc = "done", !.steps = @ \o <<"status">>,
                      !.result = Err(StatusCodeError, res.status)]

\* ------------------------------------- the fan-out of examples/managed_wallet.rs
\* join_all(...).into_iter().collect::<Result<Vec<_>>>(): the first error in
\* the order of the futures, or all the payloads in that order.
Collect(results) ==
    IF \E i \in 1..Len(results) : results[i].kind = "Err"
    THEN LET first == CHOOSE i \in 1..Len(results) :
                         /\ results[i].kind = "Err"
                         /\ \A j \in 1..(i - 1) : results[j].kind # "Err"
         IN  [kind |-> "Err", err |-> results[first].err, data |-> <<>>]
    ELSE [kind |-> "Ok", err |-> NoErr, data |-> [i \in 1..Len(results) |-> results[i].data]]

\* ------------------------------------- the wallet-set response (l.16 - l.20, l.208 - l.214)
\* A JSON object is a function from its keys to its values; a JSON string is
\* a string.
FixtureId == "0068d5a4-eb64-4399-8441-a9af33af80a0"
FixtureDate == "2023-11-25T14:26:38Z"

\* Uuid's Deserialize: the hyphenated form in either case is the same UUID,
\* any other text here is an error.
ParseUuid(text) ==
    CASE text = "0068d5a4-eb64-4399-8441-a9af33af80a0" ->
            [ok |-> TRUE, value |-> [uuid |-> "0068d5a4eb6443998441a9af33af80a0"]]
      [] text = "0068D5A4-EB64-4399-8441-A9AF33AF80A0" ->
            [ok |-> TRUE, value |-> [uuid |-> "0068d5a4eb6443998441a9af33af80a0"]]
      [] OTHER -> [ok |-> FALSE, value |-> [uuid |-> ""]]

\* DateTime<Utc>'s Deserialize: an RFC 3339 text is the instant it names, in
\* UTC; any other text here is an error.
ParseDateTime(text) ==
    CASE text = "2023-11-25T14:26:38Z" ->
            [ok |-> TRUE, value |-> [utc |-> "2023-11-25 14:26:38"]]
      [] text = "2023-11-25T15:26:38+01:00" ->
            [ok |-> TRUE, value |-> [utc |-> "2023-11-25 14:26:38"]]
      [] OTHER -> [ok |-> FALSE, value |-> [utc |-> ""]]

\* #[serde(rename_all = "camelCase")]: the wire name of a field.
CamelCase(field) ==
    CASE field = "custody_type" -> "custodyType"
      [] field = "update_date" -> "updateDate"
      [] field = "create_date" -> "createDate"
      [] field = "wallet_set" -> "walletSet"
      [] OTHER -> field

\* A variant of WireName without the rename: the field's own name.
WireName_asis(field) == field

\* The wire name of a field of the wallet-set record.
WireName(field) == CamelCase(field)

NoRecord == [ok |-> FALSE, id |-> [uuid |-> ""], custody_type |-> "", name |-> "",
             update_date |-> [utc |-> ""], create_date |-> [utc |-> ""]]

\* The derived Deserialize of the wallet-set record: every field must be
\* present under its wire name and of its type; other keys are ignored.
WalletSetRecord(obj) ==
    LET fields == {"id", "custody_type", "name", "update_date", "create_date"}
    IN  IF \E f \in fields : WireName(f) \notin DOMAIN obj THEN NoRecord
        ELSE LET id == ParseUuid(obj[WireName("id")])
                 update_date == ParseDateTime(obj[WireName("update_date")])
                 create_date == ParseDateTime(obj[WireName("create_date")])
             IN  IF ~id.ok \/ ~update_date.ok \/ ~create_date.ok THEN NoRecord
                 ELSE [ok |-> TRUE, id |-> id.value,
                       custody_type |-> obj[WireName("custody_type")],
                       name |-> obj[WireName("name")],
                       update_date |-> update_date.value,
                       create_date |-> create_date.value]

\* crate::models::wallet_set::WalletSetResponse, the payload type of
\* create_wallet_set: one field, wallet_set, holding the record.
WalletSetResponse(obj) ==
    IF CamelCase("wallet_set") \notin DOMAIN obj THEN NoRecord
    ELSE WalletSetRecord(obj[CamelCase("wallet_set")])

\* ApiResponse<T>: one field, data, holding the payload.
ApiResponse(obj) ==
    IF CamelCase("data") \notin DOMAIN obj THEN NoRecord
    ELSE WalletSetResponse(obj["data"])

\* The response bodies parsed: the record under each spelling of its keys,
\* with each text of its id, its name and its update date.
RecordObject(kc, ku, kd, id, name, date) ==
    [k \in {"id", kc, "name", ku, kd} |->
        CASE k = "id" -> id
          [] k = kc -> "DEVELOPER"
          [] k = "name" -> name
          [] k = ku -> date
          [] OTHER -> FixtureDate]

Object(key, value) == [k \in {key} |-> value]

Docs ==
    { Object(tk, Object(wk, RecordObject(kc, ku, kd, id, name, date))) :
        tk \in {"data", "Data"}, wk \in {"walletSet", "wallet_set"},
        kc \in {"custodyType", "custody_type"}, ku \in {"updateDate", "update_date"},
        kd \in {"createDate", "create_date"},
        id \in {FixtureId, "0068D5A4-EB64-4399-8441-A9AF33AF80A0", "not-a-uuid"},
        name \in {"test_wallet_set", "other"},
        date \in {FixtureDate, "2023-11-25T15:26:38+01:00", "yesterday"} }

\* The body of test_parse_wallet_set_response.
Fixture ==
    Object("data", Object("walletSet",
        RecordObject("custodyType", "updateDate", "createDate", FixtureId,
                     "test_wallet_set", FixtureDate)))

\* ------------------------------------------------------------------- state
VARIABLES
    input,      \* the api key and entity secret passed to CircleClient::new
    ctor,       \* CircleClient::new: its position, its requests, its result
    client,     \* the CircleClient new returned (NoClient before, and on failure)
    calls,      \* the invocations made through the client, in order of invocation
    net,        \* the remote service's answer to each invocation's request
    rng,        \* the number of seeds read from rand::thread_rng()
    joined,     \* the result of the caller's join_all(...).collect()
    doc,        \* a response body handed to serde_json::from_str
    parsed      \* what from_str::<ApiResponse<WalletSetResponse>> made of it

vars == <<input, ctor, client, calls, net, rng, joined, doc, parsed>>

clientVars == <<input, ctor, client, calls, net, rng, joined>>

parseVars == <<doc, parsed>>

NoResponse == [transport |-> FALSE, status |-> -1, wellformed |-> FALSE, data |-> ""]

\* The answers to an operation's request: no answer (a transport error), a
\* 2xx status with each payload, any other status with a well-formed body,
\* and every status with a malformed body.
Responses ==
    {TransportFailure("")}
        \cup {HttpResponse(s, TRUE, d) : s \in Statuses \cap 200..299, d \in Payloads}
        \cup {HttpResponse(s, TRUE, "d1") : s \in Statuses \ 200..299}
        \cup {HttpResponse(s, FALSE, "") : s \in Statuses}

\* The answers to the key-discovery request, with the key texts K.
KeyResponses(K) ==
    {TransportFailure(<<>>)}
        \cup {HttpResponse(s, TRUE, k) : s \in Statuses, k \in K}
        \cup {HttpResponse(s, FALSE, <<>>) : s \in Statuses}

NoKeyResponse == [transport |-> FALSE, status |-> -1, wellformed |-> FALSE, data |-> <<>>]

NotJoined == [kind |-> "none", err |-> NoErr, data |-> <<>>]

NotParsed == [done |-> FALSE, record |-> NoRecord]

Init ==
    /\ input \in [api_key : ApiKeys, circle_entity_secret : Secrets]
    /\ doc = Fixture
    /\ parsed = NotParsed
    /\ ctor = [pc |-> "start", reqs |-> <<>>, res |-> NoKeyResponse, result |-> NoResult]
    /\ client = NoClient
    /\ calls = [c \in CallIds |-> IdleCall]
    /\ net = [c \in CallIds |-> NoResponse]
    /\ rng = 0
    /\ joined = NotJoined

\* CircleClient::new up to its send().await (l.32 - l.41).
NewSend ==
    /\ ctor.pc = "start"
    /\ ctor' = [ctor EXCEPT !.pc = "send",
                            !.reqs = @ \o <<Get(PublicKeyUrl(BaseUrl), input.api_key, "")>>]
    /\ UNCHANGED <<input, client, calls, net, rng, joined, parseVars>>

\* CircleClient::new from its send().await to its end (l.41 - l.59).
Constructs(res) ==
    /\ ctor.pc = "send"
    /\ LET r == new(input.api_key, input.circle_entity_secret, res)
       IN  /\ ctor' = [ctor EXCEPT !.pc = r.end, !.res = res, !.result = r.result]
           /\ client' = r.client
    /\ UNCHANGED <<input, calls, net, rng, joined, parseVars>>

NewResume == \E res \in KeyResponses(KeyStrings) : Constructs(res)

\* The caller holds a client, and invocation c is the next one it makes.
CanInvoke(c) ==
    /\ ctor.pc = "Ok"
    /\ calls[c].pc = "idle"
    /\ \A d \in CallIds : d < c => calls[d].pc # "idle"
    /\ joined = NotJoined

\* The invocation starts, reading from the random source what its call of
\* encrypt_entity_secret reads.
Started(c, call) ==
    /\ calls' = [calls EXCEPT ![c] = call]
    /\ rng' = rng + (IF call.encs = <<>> THEN 0 ELSE call.encs[1].draws)
    /\ UNCHANGED <<input, ctor, client, net, joined, parseVars>>

CreateWalletSet ==
    \E c \in CallIds, idempotency_key \in Uuids :
        /\ CanInvoke(c)
        /\ Started(c, create_wallet_set(client, idempotency_key, "test_wallet_set", rng + 1))

CreateWallet ==
    \E c \in CallIds, idempotency_key \in Uuids :
        /\ CanInvoke(c)
        /\ Started(c, create_wallet(client, idempotency_key, "u1", <<"MATIC-MUMBAI">>, 2,
                                    rng + 1))

GetWalletBalance ==
    \E c \in CallIds, wallet_id \in Uuids :
        /\ CanInvoke(c)
        /\ Started(c, get_wallet_balance(client, wallet_id, [includeAll |-> TRUE]))

\* The caller's TransactionRequest.
TransferRequest == [idempotencyKey |-> "u1"]

InitiateTransaction ==
    \E c \in CallIds :
        /\ CanInvoke(c)
        /\ Started(c, initiate_transaction(client, TransferRequest))

\* A variant of ResponseFor that hands out the answer to the earliest
\* answered request, whichever invocation made it.
ResponseFor_shared(answers, c) ==
    answers[CHOOSE d \in CallIds :
                /\ answers[d].status # -1
                /\ \A e \in CallIds : e < d => answers[e].status = -1]

\* The response the transport hands to invocation c: the answer to its own
\* request.
ResponseFor(answers, c) == answers[c]

\* The remote service answers the request of invocation c, and the
\* invocation resumes with that answer and runs to its end.
Respond ==
    \E c \in CallIds, res \in Responses :
        /\ calls[c].pc = "send"
        /\ net' = [net EXCEPT ![c] = res]
        /\ calls' = [calls EXCEPT ![c] = Resume(calls[c], ResponseFor(net', c))]
        /\ UNCHANGED <<input, ctor, client, rng, joined, parseVars>>

\* The balance lookups among the invocations, in order of invocation.
BalanceCalls == SelectSeq([c \in CallIds |-> calls[c]],
                          LAMBDA call : call.op = "get_wallet_balance")

\* The caller's join_all(...).collect() over the balance lookups it fanned
\* out returns once every one of them has.
JoinAll ==
    /\ joined = NotJoined
    /\ \A c \in CallIds : calls[c].op = "get_wallet_balance" /\ calls[c].pc = "done"
    /\ joined' = Collect([i \in 1..Len(BalanceCalls) |-> BalanceCalls[i].result])
    /\ UNCHANGED <<input, ctor, client, calls, net, rng, parseVars>>

Next ==
    \/ NewSend
    \/ NewResume
    \/ CreateWalletSet
    \/ CreateWallet
    \/ GetWalletBalance
    \/ InitiateTransaction
    \/ Respond
    \/ JoinAll

Spec == Init /\ [][Next]_vars

\* ------------------------------------------------- the construction alone
InitNew ==
    /\ input \in [api_key : MoreApiKeys, circle_entity_secret : Secrets]
    /\ doc = Fixture
    /\ parsed = NotParsed
    /\ ctor = [pc |-> "start", reqs |-> <<>>, res |-> NoKeyResponse, result |-> NoResult]
    /\ client = NoClient
    /\ calls = [c \in CallIds |-> IdleCall]
    /\ net = [c \in CallIds |-> NoResponse]
    /\ rng = 0
    /\ joined = NotJoined

NewResumeMore == \E res \in KeyResponses(MoreKeyStrings) : Constructs(res)

NextNew ==
    \/ NewSend
    \/ NewResumeMore

SpecNew == InitNew /\ [][NextNew]_vars

\* ----------------------------------------- the parse of a response body alone
InitParse ==
    /\ input = [api_key |-> "TEST_API_KEY", circle_entity_secret |-> <<"7", "4">>]
    /\ doc \in Docs
    /\ parsed = NotParsed
    /\ ctor = [pc |-> "start", reqs |-> <<>>, res |-> NoKeyResponse, result |-> NoResult]
    /\ client = NoClient
    /\ calls = [c \in CallIds |-> IdleCall]
    /\ net = [c \in CallIds |-> NoResponse]
    /\ rng = 0
    /\ joined = NotJoined

\* serde_json::from_str::<ApiResponse<WalletSetResponse>>(json) (l.211 - l.212).
FromStr ==
    /\ ~parsed.done
    /\ parsed' = [done |-> TRUE, record |-> ApiResponse(doc)]
    /\ UNCHANGED <<doc, clientVars>>

NextParse == FromStr

SpecParse == InitParse /\ [][NextParse]_vars

\* ------------------------------------------------------------ the properties
\* What the claims below say of the code, stated without the definitions
\* above that model it.
Is2xx(res) == res.transport /\ res.status \in 200..299

Non2xx(res) == res.transport /\ res.status \notin 200..299

Constructed == ctor.pc \in {"Ok", "Err", "panic"}

Mutating == {"create_wallet_set", "create_wallet", "initiate_transaction"}

Encrypting == {"create_wallet_set", "create_wallet"}

MalformedHex(s) == Len(s) % 2 = 1 \/ \E i \in 1..Len(s) : s[i] \notin HexDigits

\* The outcome an operation owes to the answer res to its request.
OwnOutcome(res) ==
    IF ~res.transport THEN Err(TransportError, 0)
    ELSE IF res.status \notin 200..299 THEN Err(StatusCodeError, res.status)
    ELSE IF res.wellformed THEN Ok(res.data)
    ELSE Err(DecodeError, 0)

\* C1: on every endpoint (key discovery and the four operations) a response
\* whose status is not 2xx ends the operation in a status-code error carrying
\* that status, whatever the body is, and the body is not parsed.
StatusErrorOnNon2xx ==
    /\ \A c \in CallIds :
          (calls[c].pc = "done" /\ Non2xx(net[c])) =>
              /\ calls[c].result = Err(StatusCodeError, net[c].status)
              /\ \A i \in 1..Len(calls[c].steps) : calls[c].steps[i] # "json"
    /\ (Constructed /\ Non2xx(ctor.res)) =>
          /\ ctor.pc = "Err"
          /\ ctor.result = Err(StatusCodeError, ctor.res.status)

\* C1 witness: a redirection with a well-formed body ended an operation in
\* the status-code error 300.
StatusErrorOnNon2xxWitness ==
    \E c \in CallIds :
        /\ calls[c].pc = "done"
        /\ calls[c].op = "initiate_transaction"
        /\ net[c] = HttpResponse(300, TRUE, "d1")
        /\ calls[c].result = Err(StatusCodeError, 300)

\* C2: every invocation of a mutating operation (create_wallet_set,
\* create_wallet, initiate_transaction) calls encrypt_entity_secret exactly
\* once, and the envelope it posts carries the ciphertext of that call.
EncryptsOncePerMutatingOperation ==
    \A c \in CallIds :
        (calls[c].op \in Mutating /\ calls[c].reqs # <<>>) =>
            /\ Len(calls[c].encs) = 1
            /\ calls[c].encs[1].ok
            /\ "entitySecretCipherText" \in DOMAIN calls[c].reqs[1].body
            /\ calls[c].reqs[1].body.entitySecretCipherText = calls[c].encs[1].value

\* C3: an invocation issues at most one HTTP request, and ends in the full
\* payload of the answer or in an error, never in anything between.
SingleAttempt ==
    \A c \in CallIds :
        /\ Len(calls[c].reqs) <= 1
        /\ calls[c].pc # "done" => calls[c].result = NoResult
        /\ calls[c].pc = "done" =>
              \/ calls[c].result.kind = "Ok" /\ calls[c].result = Ok(net[c].data)
                    /\ net[c].data \in Payloads
              \/ calls[c].result.kind = "Err" /\ calls[c].result.data = ""
                    /\ calls[c].result.err.type # "none"

\* C3 witness: an invocation whose one request met a transport error is done,
\* with that error.
SingleAttemptWitness ==
    \E c \in CallIds :
        /\ calls[c].pc = "done"
        /\ net[c] = TransportFailure("")
        /\ Len(calls[c].reqs) = 1
        /\ calls[c].result = Err(TransportError, 0)

\* C4: with a malformed hex secret every call of encrypt_entity_secret fails
\* with the hex-decode error after its decode step alone: no OAEP step, no
\* read of the random source, and the operation returns that error.
HexErrorBeforeCrypto ==
    MalformedHex(input.circle_entity_secret) =>
        /\ rng = 0
        /\ \A c \in CallIds : \A i \in 1..Len(calls[c].encs) :
              /\ ~calls[c].encs[i].ok
              /\ calls[c].encs[i].err = HexError
              /\ calls[c].encs[i].steps = <<"hex::decode">>
              /\ calls[c].encs[i].draws = 0
              /\ calls[c].result = Err(HexError, 0)

\* C4 witness: an operation called encrypt_entity_secret with the secret "7g".
HexErrorBeforeCryptoWitness ==
    /\ input.circle_entity_secret = <<"7", "g">>
    /\ \E c \in CallIds : calls[c].op = "create_wallet_set" /\ Len(calls[c].encs) = 1

\* The balance lookups among the invocations, and those of them that failed.
Lookups == {c \in CallIds : calls[c].op = "get_wallet_balance"}

FailedLookups == {c \in Lookups : calls[c].result.kind = "Err"}

\* C5: each balance lookup asks for its own wallet and its result is the
\* outcome of the answer to its own request, whatever the other invocations
\* did and in whatever order the answers came; only the caller's collect()
\* over the lookups stops at the first error.
BalanceLookupsIndependent ==
    /\ \A c \in Lookups :
          /\ Len(calls[c].reqs) = 1
          /\ calls[c].reqs[1].url = <<BaseUrl, "w3s/wallets/", calls[c].arg, "/balances">>
          /\ calls[c].pc = "send" => calls[c].result = NoResult /\ net[c] = NoResponse
          /\ calls[c].pc = "done" => calls[c].result = OwnOutcome(net[c])
    /\ joined # NotJoined =>
          IF FailedLookups # {}
          THEN /\ joined.kind = "Err"
               /\ \E c \in FailedLookups :
                     /\ \A d \in FailedLookups : c <= d
                     /\ joined.err = calls[c].result.err
          ELSE /\ joined.kind = "Ok"
               /\ Len(joined.data) = Cardinality(Lookups)
               /\ \A c \in Lookups :
                     joined.data[Cardinality({d \in Lookups : d <= c})] = calls[c].result.data

\* C5 witness: of two lookups for distinct wallets in flight at once the
\* first failed and the second returned its own payload, and the caller's
\* collect() returned the error.
BalanceLookupsIndependentWitness ==
    /\ calls[1].op = "get_wallet_balance" /\ calls[2].op = "get_wallet_balance"
    /\ calls[1].arg # calls[2].arg
    /\ calls[1].result = Err(StatusCodeError, 401)
    /\ calls[2].result = Ok("d2")
    /\ net[1].data = "d1"
    /\ joined.kind = "Err"

\* The state of a constructed client and of its construction.
ClientAsConstructed ==
    /\ client = [base_url |-> "https://api.circle.com/v1/", api_key |-> input.api_key,
                 circle_entity_secret |-> input.circle_entity_secret,
                 public_key |-> [n |-> 67]]
    /\ Len(ctor.reqs) = 1
    /\ ctor.reqs[1].url = PublicKeyUrl(BaseUrl)
    /\ \A c \in CallIds : \A i \in 1..Len(calls[c].reqs) :
          calls[c].reqs[i].url # PublicKeyUrl(BaseUrl)

\* C6: the public key is fetched once, by CircleClient::new, and once the
\* client is constructed no operation changes its base URL, API key, secret
\* or public key, or asks the key-discovery endpoint again.
ClientStateSetOnce ==
    /\ [](ctor.pc = "Ok" => ClientAsConstructed)
    /\ [][ctor.pc = "Ok" => (client' = client /\ ctor' = ctor /\ input' = input)]_vars

\* C6 witness: through a constructed client one operation failed and one
\* succeeded.
ClientStateSetOnceWitness ==
    /\ ctor.pc = "Ok"
    /\ calls[1].op = "create_wallet_set" /\ calls[1].result.kind = "Err"
    /\ calls[2].op = "get_wallet_balance" /\ calls[2].result.kind = "Ok"

\* The key texts that, the "RSA " tokens removed, are a public key document.
UsableKey(text) == text \in {VendorPem, PlainPem}

\* C7: CircleClient::new returns a client exactly when the key-discovery GET
\* returned 2xx, its body parsed and the key text decoded; a status that is
\* not 2xx is a status-code error; a key text that does not decode is a
\* panic, neither a client nor an error; no client is without a usable key.
ConstructionOutcome ==
    /\ client # NoClient => (ctor.pc = "Ok" /\ client.public_key.n > 0)
    /\ ctor.pc = "Ok" =>
          /\ Is2xx(ctor.res) /\ ctor.res.wellformed /\ UsableKey(ctor.res.data)
          /\ client = [base_url |-> "https://api.circle.com/v1/", api_key |-> input.api_key,
                       circle_entity_secret |-> input.circle_entity_secret,
                       public_key |-> [n |-> 67]]
    /\ (Constructed /\ Non2xx(ctor.res)) =>
          ctor.pc = "Err" /\ ctor.result = Err(StatusCodeError, ctor.res.status)
    /\ (Constructed /\ Is2xx(ctor.res) /\ ctor.res.wellformed) =>
          IF UsableKey(ctor.res.data)
          THEN ctor.pc = "Ok"
          ELSE ctor.pc = "panic" /\ ctor.result = NoResult /\ client = NoClient

\* C7 witness: the key text of a 2xx answer did not decode and the
\* constructor panicked.
ConstructionOutcomeWitness ==
    /\ ctor.pc = "panic"
    /\ ctor.res = HttpResponse(204, TRUE, PrivatePem)

\* The invocations of create_wallet_set and create_wallet that posted an
\* envelope.
Posted == {c \in CallIds : calls[c].op \in Encrypting /\ calls[c].reqs # <<>>}

\* C8 as claimed: no two envelopes posted by create_wallet_set and
\* create_wallet invocations carry the same idempotency key.
NoIdempotencyKeyReuse ==
    \A c, d \in Posted :
        c # d => calls[c].reqs[1].body.idempotencyKey # calls[d].reqs[1].body.idempotencyKey

\* C8 as amended: the envelope an invocation of create_wallet_set or
\* create_wallet posts carries the idempotency key its caller passed, so two
\* envelopes carry the same key exactly when the caller passed the same key.
EnvelopeCarriesCallersKey ==
    \A c \in Posted :
        /\ Len(calls[c].reqs) = 1
        /\ calls[c].reqs[1].method = "POST"
        /\ calls[c].reqs[1].body.idempotencyKey = calls[c].arg
        /\ calls[c].arg \in Uuids

\* C8 witness: the caller passed the key "u1" to a create_wallet_set and to a
\* create_wallet, and both envelopes were posted with it.
EnvelopeCarriesCallersKeyWitness ==
    /\ calls[1].op = "create_wallet_set" /\ calls[2].op = "create_wallet"
    /\ 1 \in Posted /\ 2 \in Posted
    /\ calls[1].reqs[1].body.idempotencyKey = "u1"
    /\ calls[2].reqs[1].body.idempotencyKey = "u1"

\* A body of the shape {"data":{"walletSet":{id, custodyType, name,
\* updateDate, createDate}}} with a UUID and two timestamps.
HasShape(body) ==
    /\ "data" \in DOMAIN body
    /\ "walletSet" \in DOMAIN body["data"]
    /\ {"id", "custodyType", "name", "updateDate", "createDate"}
          \subseteq DOMAIN body["data"]["walletSet"]
    /\ body["data"]["walletSet"]["id"]
          \in {FixtureId, "0068D5A4-EB64-4399-8441-A9AF33AF80A0"}
    /\ body["data"]["walletSet"]["updateDate"]
          \in {FixtureDate, "2023-11-25T15:26:38+01:00"}
    /\ body["data"]["walletSet"]["createDate"]
          \in {FixtureDate, "2023-11-25T15:26:38+01:00"}

EncryptionFails ==
    \/ MalformedHex(client.circle_entity_secret)
    \/ Len(client.circle_entity_secret) \div 2 + 2 * 32 + 2 > client.public_key.n

\* C10: an invocation of create_wallet_set or create_wallet whose encryption
\* fails returns that error and sends no request; a transport error and a
\* malformed body of a 2xx answer are the operation's result; no operation
\* returns success after a step of it failed.
ErrorsPropagate ==
    \A c \in CallIds :
        /\ (calls[c].op \in Encrypting /\ EncryptionFails) =>
              /\ calls[c].pc = "done"
              /\ calls[c].reqs = <<>>
              /\ net[c] = NoResponse
              /\ calls[c].result.kind = "Err"
              /\ calls[c].result.err.type =
                    (IF MalformedHex(client.circle_entity_secret) THEN HexError ELSE RsaError)
        /\ (calls[c].pc = "done" /\ calls[c].reqs # <<>> /\ ~net[c].transport) =>
              calls[c].result = Err(TransportError, 0)
        /\ (calls[c].pc = "done" /\ Is2xx(net[c]) /\ ~net[c].wellformed) =>
              calls[c].result = Err(DecodeError, 0)
        /\ calls[c].result.kind = "Ok" =>
              /\ Is2xx(net[c]) /\ net[c].wellformed
              /\ calls[c].op \in Encrypting => ~EncryptionFails

\* C10 witness: a create_wallet whose secret is too long for the key
\* returned the cryptographic error and sent nothing.
ErrorsPropagateWitness ==
    \E c \in CallIds :
        /\ calls[c].op = "create_wallet"
        /\ calls[c].result = Err(RsaError, 0)
        /\ calls[c].reqs = <<>>

====
